---------------------------- MODULE Spec2Model ----------------------------
(***************************************************************************)
(* Model of scripts/ci/bench-compare.py: the Criterion baseline comparator. *)
(*                                                                         *)
(* Strings are sequences of code points, so that split, join, startswith   *)
(* and the ordering used by sorted() are computed the way Python computes  *)
(* them.  An Optional value is a sequence of length 0 (None) or 1.         *)
(* A percentage is the exact rational <<num, den>> with den > 0; the       *)
(* timings below are chosen so that the float computation of line 116 is   *)
(* exact on them.                                                          *)
(***************************************************************************)
EXTENDS Integers, Sequences, FiniteSets, TLC

VARIABLES
    tree,            \* the result tree: directory (sequence of names) -> point estimate
    args,            \* parsed command line: base, pr, threshold
    walk,            \* directories holding estimates.json, in the order os.walk last yielded them
    base_results,    \* main: base_results
    pr_results,      \* main: pr_results
    all_keys,        \* main: all_keys
    idx,             \* position of the for loop of line 91 in all_keys
    results,         \* main: results
    regressions,     \* main: regressions
    improvements,    \* main: improvements
    has_regression,  \* main: has_regression
    json_file,       \* bench-results.json: None until written
    md_file,         \* bench-results.md: None until written
    stdout,          \* lines printed to standard output
    stderr,          \* lines printed to standard error
    exit_code,       \* process exit status: None while running
    pc               \* position of main

vars == <<tree, args, walk, base_results, pr_results, all_keys, idx, results,
          regressions, improvements, has_regression, json_file, md_file,
          stdout, stderr, exit_code, pc>>

-----------------------------------------------------------------------------
(* Bounds and input sets *)

MaxDirs == 3

\* os.sep on the CI runner (POSIX): "/"
os_sep == <<47>>

seg_a      == <<97>>                            \* "a"
seg_a_b    == <<97, 45, 98>>                    \* "a-b"
seg_gitr   == <<103, 105, 116, 114>>            \* "gitr"
seg_gitr_p == <<103, 105, 116, 114, 95, 112>>   \* "gitr_p"
seg_gitrx  == <<103, 105, 116, 114, 120>>       \* "gitrx"
seg_main   == <<109, 97, 105, 110>>             \* "main"
seg_pr     == <<112, 114>>                      \* "pr"

\* Directories that may hold an estimates.json, relative to the criterion dir.
DirUniverse ==
    { <<seg_a, seg_gitr, seg_main>>,
      <<seg_a, seg_gitr, seg_pr>>,
      <<seg_a_b, seg_gitr_p, seg_main>>,
      <<seg_a, seg_gitrx, seg_main>>,
      <<seg_main>>,
      <<seg_a, seg_gitr, seg_main, seg_pr>>,
      <<seg_a, seg_gitr, seg_main, seg_a>> }

\* mean.point_estimate values (nanoseconds)
Timings == {0, 100, 200}

\* --threshold values
Thresholds == {-100, 0, 100}

None == << >>

Some(v) == <<v>>

-----------------------------------------------------------------------------
(* Python string and dict primitives *)

\* s < t for Python strings: code point by code point, a proper prefix is smaller
StrLess(s, t) ==
    \E i \in 1..(Len(t)) :
        /\ \A j \in 1..(i-1) : j <= Len(s) /\ s[j] = t[j]
        /\ \/ i = Len(s) + 1
           \/ i <= Len(s) /\ s[i] < t[i]

\* s.startswith(p)
startswith(s, p) ==
    /\ Len(p) <= Len(s)
    /\ SubSeq(s, 1, Len(p)) = p

RECURSIVE join(_, _)
\* sep.join(parts)
join(sep, parts) ==
    IF Len(parts) = 0 THEN << >>
    ELSE IF Len(parts) = 1 THEN parts[1]
    ELSE parts[1] \o sep \o join(sep, Tail(parts))

RECURSIVE split(_, _)
\* s.split(sep) for a one-character sep
split(s, sep) ==
    IF \A i \in 1..Len(s) : <<s[i]>> # sep THEN <<s>>
    ELSE LET i == CHOOSE k \in 1..Len(s) :
                      /\ <<s[k]>> = sep
                      /\ \A j \in 1..(k-1) : <<s[j]>> # sep
         IN  <<SubSeq(s, 1, i-1)>> \o split(SubSeq(s, i+1, Len(s)), sep)

\* x in list
Contains(list, x) == \E i \in 1..Len(list) : list[i] = x

\* list.index(x), 1-based
index(list, x) ==
    CHOOSE i \in 1..Len(list) :
        /\ list[i] = x
        /\ \A j \in 1..(i-1) : list[j] # x

EmptyDict == [k \in {} |-> 0]

\* d[k] = v
Put(d, k, v) == [x \in (DOMAIN d) \cup {k} |-> IF x = k THEN v ELSE d[x]]

\* d.get(k)
Get(d, k) == IF k \in DOMAIN d THEN Some(d[k]) ELSE None

-----------------------------------------------------------------------------
(* find_baselines *)

\* os.path.relpath(root, criterion_dir)
relpath(dir) == IF dir = << >> THEN <<46>> ELSE join(os_sep, dir)

\* length of the longest common prefix of two directories
CommonLen(d, e) ==
    CHOOSE n \in 0..Len(d) :
        /\ n <= Len(e)
        /\ SubSeq(d, 1, n) = SubSeq(e, 1, n)
        /\ ~ (n < Len(d) /\ n < Len(e) /\ d[n+1] = e[n+1])

RECURSIVE Orderings(_)
\* the sequences that list every directory of S once
Orderings(S) ==
    IF S = {} THEN { << >> }
    ELSE UNION { { <<x>> \o w : w \in Orderings(S \ {x}) } : x \in S }

\* The orders in which os.walk (top-down, siblings in directory order) can
\* yield the directories of S: a directory before those below it, every
\* subtree in one piece.
WalkOrders(S) ==
    { w \in Orderings(S) :
        /\ \A i, j \in DOMAIN w :
              i < j => ~ (Len(w[j]) < Len(w[i]) /\ CommonLen(w[i], w[j]) = Len(w[j]))
        /\ \A i, j, k \in DOMAIN w :
              (i < j /\ j < k) => CommonLen(w[i], w[k]) <= CommonLen(w[i], w[j]) }

\* visit, keeping the value recorded first when a key comes up again
visit_keep_first(res, fs, root, baseline_name) ==
    LET parts == split(relpath(root), os_sep)
    IN  IF ~ Contains(parts, baseline_name) THEN res
        ELSE LET bench_key == join(os_sep, SubSeq(parts, 1, index(parts, baseline_name) - 1))
             IN  IF bench_key = << >> \/ bench_key \in DOMAIN res THEN res
                 ELSE Put(res, bench_key, fs[root])

\* One iteration of the loop of line 31 on a directory holding estimates.json
visit(res, fs, root, baseline_name) ==
    LET rel   == relpath(root)
        parts == split(rel, os_sep)
    IN  IF ~ Contains(parts, baseline_name) THEN res
        ELSE LET baseline_idx == index(parts, baseline_name)
                 bench_key    == join(os_sep, SubSeq(parts, 1, baseline_idx - 1))
             IN  IF bench_key = << >> THEN res
                 ELSE Put(res, bench_key, fs[root])

RECURSIVE walk_from(_, _, _, _, _)
walk_from(res, fs, w, i, baseline_name) ==
    IF i > Len(w) THEN res
    ELSE walk_from(visit(res, fs, w[i], baseline_name), fs, w, i + 1, baseline_name)

find_baselines(fs, w, baseline_name) == walk_from(EmptyDict, fs, w, 1, baseline_name)


-----------------------------------------------------------------------------
(* is_gitr_bench *)

gitr == <<103, 105, 116, 114>>

is_gitr_bench(bench_key) ==
    LET parts == split(bench_key, os_sep)
    IN  \E i \in 1..Len(parts) :
            \/ parts[i] = gitr
            \/ startswith(parts[i], gitr \o <<95>>)
            \/ startswith(parts[i], gitr \o os_sep)

-----------------------------------------------------------------------------
(* main: the comparison *)

\* bool(not d) for a dict
falsy(d) == DOMAIN d = {}

\* line 81: if not base_results
MissingBase == falsy(base_results)

\* the emptiness check of the PR snapshot left out
MissingPr_unchecked == FALSE

\* line 84: if not pr_results
MissingPr == falsy(pr_results)

\* only the keys both snapshots hold
key_intersection(b, p) == (DOMAIN b) \cap (DOMAIN p)

\* set(base_results.keys()) | set(pr_results.keys())
key_union(b, p) == (DOMAIN b) \cup (DOMAIN p)

\* p < q for lists of strings: element by element, a proper prefix is smaller
ListLess(p, q) ==
    \E i \in 1..Len(q) :
        /\ \A j \in 1..(i-1) : j <= Len(p) /\ p[j] = q[j]
        /\ \/ i = Len(p) + 1
           \/ i <= Len(p) /\ StrLess(p[i], q[i])

RECURSIVE sorted_by_segments(_)
\* sorted(S, key=lambda k: k.split(os.sep))
sorted_by_segments(S) ==
    IF S = {} THEN << >>
    ELSE LET m == CHOOSE x \in S :
                      \A y \in S \ {x} : ListLess(split(x, os_sep), split(y, os_sep))
         IN  <<m>> \o sorted_by_segments(S \ {m})

RECURSIVE sorted(_)
\* sorted(S) for a set of strings
sorted(S) ==
    IF S = {} THEN << >>
    ELSE LET m == CHOOSE x \in S : \A y \in S \ {x} : StrLess(x, y)
         IN  <<m>> \o sorted(S \ {m})

\* the filter of line 93 left out
tracked_all(key) == TRUE

\* line 93: the keys the loop keeps
tracked(key) == is_gitr_bench(key)

\* line 116 guarded against a zero base: 0% instead of the exception
pct_of_guarded(base_ns, pr_ns) ==
    IF base_ns = 0 THEN [ok |-> TRUE, num |-> 0, den |-> 1]
    ELSE [ok |-> TRUE, num |-> (pr_ns - base_ns) * 100, den |-> base_ns]

\* line 116: ((pr_ns - base_ns) / base_ns) * 100; ok is FALSE where Python
\* raises ZeroDivisionError
pct_of(base_ns, pr_ns) ==
    [ok |-> base_ns # 0, num |-> (pr_ns - base_ns) * 100, den |-> base_ns]

\* pct > t and pct < t for a percentage with a positive denominator
Gt(pct, t) == pct.num > t * pct.den

Lt(pct, t) == pct.num < t * pct.den

\* lines 117-122 with >= and <= for > and <
classify_inclusive(pct, threshold) ==
    IF ~ Lt(pct, threshold) THEN "REGRESSION"
    ELSE IF ~ Gt(pct, -threshold) THEN "IMPROVEMENT"
    ELSE "OK"

\* lines 117-122 with the IMPROVEMENT test first
classify_improvement_first(pct, threshold) ==
    IF Lt(pct, -threshold) THEN "IMPROVEMENT"
    ELSE IF Gt(pct, threshold) THEN "REGRESSION"
    ELSE "OK"

\* lines 117-122
classify(pct, threshold) ==
    IF Gt(pct, threshold) THEN "REGRESSION"
    ELSE IF Lt(pct, -threshold) THEN "IMPROVEMENT"
    ELSE "OK"

\* round(pct, 2), in hundredths of a percent: nearest, ties to even
round2(pct) ==
    LET n == pct.num * 100
        q == n \div pct.den
        r == n % pct.den
    IN  IF 2 * r < pct.den THEN q
        ELSE IF 2 * r > pct.den THEN q + 1
        ELSE IF q % 2 = 0 THEN q ELSE q + 1

\* lines 100-106
new_result(key, pr_ns) ==
    [benchmark |-> key, base_ns |-> None, pr_ns |-> pr_ns,
     pct_change |-> None, status |-> "NEW"]

\* lines 108-114
removed_result(key, base_ns) ==
    [benchmark |-> key, base_ns |-> base_ns, pr_ns |-> None,
     pct_change |-> None, status |-> "REMOVED"]

\* lines 123-129
compared_result(key, base_ns, pr_ns, pct, threshold) ==
    [benchmark |-> key, base_ns |-> base_ns, pr_ns |-> pr_ns,
     pct_change |-> Some(round2(pct)), status |-> classify(pct, threshold)]

\* [r for r in rs if r["status"] == st]
with_status(rs, st) == SelectSeq(rs, LAMBDA r : r.status = st)

\* line 133 with > 1 for > 0
any_regression_off_by_one(regs) == Len(regs) > 1

\* line 133
any_regression(regs) == Len(regs) > 0

-----------------------------------------------------------------------------
(* main: the reports *)

\* lines 136-143
json_output ==
    [has_regression |-> has_regression,
     threshold      |-> args.threshold,
     total          |-> Len(results),
     regressions    |-> Len(regressions),
     improvements   |-> Len(improvements),
     results        |-> results]

\* line 162 and line 219: f"+{r['pct_change']}%"
regression_change(r) == [sign |-> "+", pct |-> r.pct_change]

\* line 173: f"{r['pct_change']}%"
improvement_change(r) == [sign |-> "", pct |-> r.pct_change]

\* lines 196-200
change_str(r) ==
    IF r.pct_change # None
    THEN [sign |-> IF r.pct_change[1] > 0 THEN "+" ELSE "", pct |-> r.pct_change]
    ELSE [sign |-> "", pct |-> None]

row(r, change) == [benchmark |-> r.benchmark, change |-> change, status |-> r.status]

names(rs) == [i \in 1..Len(rs) |-> rs[i].benchmark]

\* lines 148-208
md_content ==
    [status             |-> IF has_regression THEN "FAIL" ELSE "PASS",
     threshold          |-> args.threshold,
     summary            |-> <<Len(results), Len(regressions), Len(improvements)>>,
     regressions_table  |-> [i \in 1..Len(regressions) |->
                                row(regressions[i], regression_change(regressions[i]))],
     improvements_table |-> [i \in 1..Len(improvements) |->
                                row(improvements[i], improvement_change(improvements[i]))],
     new_benchmarks     |-> names(with_status(results, "NEW")),
     removed_benchmarks |-> names(with_status(results, "REMOVED")),
     all_results        |-> [i \in 1..Len(results) |-> row(results[i], change_str(results[i]))]]

\* lines 213-219
console ==
    [compared     |-> Len(results),
     threshold    |-> args.threshold,
     regressions  |-> Len(regressions),
     improvements |-> Len(improvements),
     regressed    |-> [i \in 1..Len(regressions) |->
                          row(regressions[i], regression_change(regressions[i]))]]

-----------------------------------------------------------------------------
(* The state machine *)

Trees ==
    UNION { [S -> Timings] : S \in { T \in SUBSET DirUniverse : Cardinality(T) <= MaxDirs } }

Init ==
    /\ tree \in Trees
    /\ args \in [base : {seg_main}, pr : {seg_pr}, threshold : Thresholds]
    /\ walk = << >>
    /\ base_results = EmptyDict
    /\ pr_results = EmptyDict
    /\ all_keys = << >>
    /\ idx = 0
    /\ results = << >>
    /\ regressions = << >>
    /\ improvements = << >>
    /\ has_regression = FALSE
    /\ json_file = None
    /\ md_file = None
    /\ stdout = << >>
    /\ stderr = << >>
    /\ exit_code = None
    /\ pc = "load_base"

\* line 78
LoadBase ==
    /\ pc = "load_base"
    /\ \E w \in WalkOrders(DOMAIN tree) :
          /\ walk' = w
          /\ base_results' = find_baselines(tree, w, args.base)
    /\ pc' = "load_pr"
    /\ UNCHANGED <<tree, args, pr_results, all_keys, idx, results, regressions,
                   improvements, has_regression, json_file, md_file, stdout,
                   stderr, exit_code>>

\* line 79
LoadPr ==
    /\ pc = "load_pr"
    /\ \E w \in WalkOrders(DOMAIN tree) :
          /\ walk' = w
          /\ pr_results' = find_baselines(tree, w, args.pr)
    /\ pc' = "check"
    /\ UNCHANGED <<tree, args, base_results, all_keys, idx, results, regressions,
                   improvements, has_regression, json_file, md_file, stdout,
                   stderr, exit_code>>

\* lines 81-83
ExitNoBase ==
    /\ pc = "check"
    /\ MissingBase
    /\ stderr' = Append(stderr, "ERROR: No base baseline")
    /\ exit_code' = Some(1)
    /\ pc' = "exited"
    /\ UNCHANGED <<tree, args, walk, base_results, pr_results, all_keys, idx, results,
                   regressions, improvements, has_regression, json_file, md_file, stdout>>

\* lines 84-86
ExitNoPr ==
    /\ pc = "check"
    /\ ~ MissingBase
    /\ MissingPr
    /\ stderr' = Append(stderr, "ERROR: No PR baseline")
    /\ exit_code' = Some(1)
    /\ pc' = "exited"
    /\ UNCHANGED <<tree, args, walk, base_results, pr_results, all_keys, idx, results,
                   regressions, improvements, has_regression, json_file, md_file, stdout>>

\* lines 88-90
SortKeys ==
    /\ pc = "check"
    /\ ~ MissingBase
    /\ ~ MissingPr
    /\ all_keys' = sorted(key_union(base_results, pr_results))
    /\ results' = << >>
    /\ idx' = 1
    /\ walk' = << >>
    /\ pc' = "loop"
    /\ UNCHANGED <<tree, args, base_results, pr_results, regressions, improvements,
                   has_regression, json_file, md_file, stdout, stderr, exit_code>>

InLoop == pc = "loop" /\ idx <= Len(all_keys)

loop_unchanged ==
    UNCHANGED <<tree, args, walk, base_results, pr_results, all_keys, regressions,
                improvements, has_regression, json_file, md_file, stdout>>

\* lines 93-94
SkipKey ==
    /\ InLoop
    /\ ~ tracked(all_keys[idx])
    /\ idx' = idx + 1
    /\ UNCHANGED <<results, stderr, exit_code, pc>>
    /\ loop_unchanged

\* lines 96-106
AppendNew ==
    /\ InLoop
    /\ tracked(all_keys[idx])
    /\ Get(base_results, all_keys[idx]) = None
    /\ results' = Append(results, new_result(all_keys[idx], Get(pr_results, all_keys[idx])))
    /\ idx' = idx + 1
    /\ UNCHANGED <<stderr, exit_code, pc>>
    /\ loop_unchanged

\* lines 107-114
AppendRemoved ==
    /\ InLoop
    /\ tracked(all_keys[idx])
    /\ Get(base_results, all_keys[idx]) # None
    /\ Get(pr_results, all_keys[idx]) = None
    /\ results' = Append(results, removed_result(all_keys[idx], Get(base_results, all_keys[idx])))
    /\ idx' = idx + 1
    /\ UNCHANGED <<stderr, exit_code, pc>>
    /\ loop_unchanged

\* lines 115-129
AppendCompared ==
    /\ InLoop
    /\ tracked(all_keys[idx])
    /\ Get(base_results, all_keys[idx]) # None
    /\ Get(pr_results, all_keys[idx]) # None
    /\ LET key     == all_keys[idx]
           base_ns == base_results[key]
           pr_ns   == pr_results[key]
           pct     == pct_of(base_ns, pr_ns)
       IN  /\ pct.ok
           /\ results' = Append(results,
                  compared_result(key, Some(base_ns), Some(pr_ns), pct, args.threshold))
    /\ idx' = idx + 1
    /\ UNCHANGED <<stderr, exit_code, pc>>
    /\ loop_unchanged

\* line 116 raising ZeroDivisionError, which nothing catches
RaiseZeroDivision ==
    /\ InLoop
    /\ tracked(all_keys[idx])
    /\ Get(base_results, all_keys[idx]) # None
    /\ Get(pr_results, all_keys[idx]) # None
    /\ ~ pct_of(base_results[all_keys[idx]], pr_results[all_keys[idx]]).ok
    /\ stderr' = Append(stderr, "ZeroDivisionError")
    /\ exit_code' = Some(1)
    /\ pc' = "exited"
    /\ UNCHANGED <<results, idx>>
    /\ loop_unchanged

\* lines 131-133
Aggregate ==
    /\ pc = "loop"
    /\ idx > Len(all_keys)
    /\ regressions' = with_status(results, "REGRESSION")
    /\ improvements' = with_status(results, "IMPROVEMENT")
    /\ has_regression' = any_regression(with_status(results, "REGRESSION"))
    /\ pc' = "write_json"
    /\ UNCHANGED <<tree, args, walk, base_results, pr_results, all_keys, idx, results,
                   json_file, md_file, stdout, stderr, exit_code>>

\* lines 136-145
WriteJson ==
    /\ pc = "write_json"
    /\ json_file' = Some(json_output)
    /\ pc' = "write_md"
    /\ UNCHANGED <<tree, args, walk, base_results, pr_results, all_keys, idx, results,
                   regressions, improvements, has_regression, md_file, stdout, stderr,
                   exit_code>>

\* lines 148-210
WriteMarkdown ==
    /\ pc = "write_md"
    /\ md_file' = Some(md_content)
    /\ pc' = "print"
    /\ UNCHANGED <<tree, args, walk, base_results, pr_results, all_keys, idx, results,
                   regressions, improvements, has_regression, json_file, stdout, stderr,
                   exit_code>>

\* lines 213-219, then the normal end of the process
PrintSummary ==
    /\ pc = "print"
    /\ stdout' = Append(stdout, console)
    /\ exit_code' = Some(0)
    /\ pc' = "done"
    /\ UNCHANGED <<tree, args, walk, base_results, pr_results, all_keys, idx, results,
                   regressions, improvements, has_regression, json_file, md_file, stderr>>

Next ==
    \/ LoadBase
    \/ LoadPr
    \/ ExitNoBase
    \/ ExitNoPr
    \/ SortKeys
    \/ SkipKey
    \/ AppendNew
    \/ AppendRemoved
    \/ AppendCompared
    \/ RaiseZeroDivision
    \/ Aggregate
    \/ WriteJson
    \/ WriteMarkdown
    \/ PrintSummary

Spec == Init /\ [][Next]_vars

-----------------------------------------------------------------------------
(* Vocabulary of the properties, stated on the inputs and outputs alone *)

Statuses == {"REGRESSION", "IMPROVEMENT", "OK", "NEW", "REMOVED"}

Loaded == pc \notin {"load_base", "load_pr"}

\* the loop of line 91 has run to its end
Classified ==
    \/ pc = "loop" /\ idx > Len(all_keys)
    \/ pc \in {"write_json", "write_md", "print", "done"}

\* the identities of either snapshot that pass the subsystem filter
FilteredKeys ==
    { k \in (DOMAIN base_results) \cup (DOMAIN pr_results) : is_gitr_bench(k) }

InBoth(k) == k \in DOMAIN base_results /\ k \in DOMAIN pr_results

\* (pr - base) / base * 100 compared with t, for base > 0, without the division
PctAbove(b, c, t) == (c - b) * 100 > t * b

PctBelow(b, c, t) == (c - b) * 100 < t * b

PctEquals(b, c, t) == (c - b) * 100 = t * b

Bucket(st) == { results[i].benchmark : i \in { j \in 1..Len(results) : results[j].status = st } }

Compared(r) == r.base_ns # None /\ r.pr_ns # None

\* every change rendered by the reports
RenderedChanges(md, out) ==
    { md.regressions_table[i].change : i \in 1..Len(md.regressions_table) }
    \cup { md.improvements_table[i].change : i \in 1..Len(md.improvements_table) }
    \cup { md.all_results[i].change : i \in 1..Len(md.all_results) }
    \cup { out.regressed[i].change : i \in 1..Len(out.regressed) }

\* every identity named by the reports
ReportedNames(md, out) ==
    { md.regressions_table[i].benchmark : i \in 1..Len(md.regressions_table) }
    \cup { md.improvements_table[i].benchmark : i \in 1..Len(md.improvements_table) }
    \cup { md.all_results[i].benchmark : i \in 1..Len(md.all_results) }
    \cup { md.new_benchmarks[i] : i \in 1..Len(md.new_benchmarks) }
    \cup { md.removed_benchmarks[i] : i \in 1..Len(md.removed_benchmarks) }
    \cup { out.regressed[i].benchmark : i \in 1..Len(out.regressed) }

-----------------------------------------------------------------------------
(* C1 *)

\* C1: once the loop has classified every key, each identity of the filtered
\* union of the two snapshots has exactly one result; a result is NEW iff the
\* base timing is absent, REMOVED iff the base is present and the candidate
\* absent, REGRESSION, IMPROVEMENT or OK iff both are present; the five
\* buckets are pairwise disjoint and their union is the filtered key set.
C1_ClassificationTotal ==
    Classified =>
        /\ \A k \in FilteredKeys :
              Cardinality({ i \in 1..Len(results) : results[i].benchmark = k }) = 1
        /\ \A i \in 1..Len(results) :
              LET r == results[i]
                  k == r.benchmark
              IN  /\ k \in FilteredKeys
                  /\ r.status \in Statuses
                  /\ (r.status = "NEW") <=> (k \notin DOMAIN base_results)
                  /\ (r.status = "REMOVED") <=>
                        (k \in DOMAIN base_results /\ k \notin DOMAIN pr_results)
                  /\ (r.status \in {"REGRESSION", "IMPROVEMENT", "OK"}) <=> InBoth(k)
                  /\ (r.base_ns = None) <=> (k \notin DOMAIN base_results)
                  /\ (r.pr_ns = None) <=> (k \notin DOMAIN pr_results)
                  /\ (r.pct_change # None) <=> InBoth(k)
        /\ \A st1, st2 \in Statuses : st1 # st2 => Bucket(st1) \cap Bucket(st2) = {}
        /\ UNION { Bucket(st) : st \in Statuses } = FilteredKeys
        /\ json_file # None => json_file[1].results = results

C1_Witness ==
    /\ pc = "done"
    /\ Bucket("NEW") # {}
    /\ Bucket("REMOVED") # {}
    /\ \E k \in (DOMAIN base_results) \cup (DOMAIN pr_results) : ~ is_gitr_bench(k)

-----------------------------------------------------------------------------
(* C2 *)

\* C2, as stated: for every threshold, a change equal to the threshold is OK,
\* and a change equal to minus the threshold is OK.
C2_BoundaryIsOkForEveryThreshold ==
    \A i \in 1..Len(results) :
        LET r == results[i]
        IN  Compared(r) =>
               /\ PctEquals(r.base_ns[1], r.pr_ns[1], args.threshold) => r.status = "OK"
               /\ PctEquals(r.base_ns[1], r.pr_ns[1], -args.threshold) => r.status = "OK"

\* C2, amended: for every threshold, a change equal to the threshold is not a
\* REGRESSION and a change equal to minus the threshold is not an IMPROVEMENT;
\* when the threshold is zero or positive both are OK.
C2_BoundaryStrict ==
    \A i \in 1..Len(results) :
        LET r == results[i]
            b == r.base_ns[1]
            c == r.pr_ns[1]
        IN  Compared(r) =>
               /\ PctEquals(b, c, args.threshold) => r.status # "REGRESSION"
               /\ PctEquals(b, c, -args.threshold) => r.status # "IMPROVEMENT"
               /\ (args.threshold >= 0 /\ PctEquals(b, c, args.threshold)) => r.status = "OK"
               /\ (args.threshold >= 0 /\ PctEquals(b, c, -args.threshold)) => r.status = "OK"

C2_Witness ==
    /\ pc = "done"
    /\ args.threshold > 0
    /\ \E i \in 1..Len(results) :
          /\ Compared(results[i])
          /\ PctEquals(results[i].base_ns[1], results[i].pr_ns[1], args.threshold)
          /\ results[i].status = "OK"

-----------------------------------------------------------------------------
(* C3 *)

\* C3: when either snapshot is empty after loading, the run can only stop
\* with a nonzero exit status, and neither artifact is ever written.
C3_EmptySnapshotAborts ==
    (Loaded /\ (DOMAIN base_results = {} \/ DOMAIN pr_results = {})) =>
        /\ pc \in {"check", "exited"}
        /\ json_file = None
        /\ md_file = None
        /\ pc = "exited" => (exit_code # None /\ exit_code # Some(0) /\ Len(stderr) > 0)

C3_Witness ==
    /\ pc = "exited"
    /\ DOMAIN base_results # {}
    /\ DOMAIN pr_results = {}
    /\ exit_code = Some(1)

-----------------------------------------------------------------------------
(* C4 *)

-----------------------------------------------------------------------------
(* C5 *)

\* C5: in the written report has_regression is true iff some result is a
\* REGRESSION, regressions and improvements count the results of those
\* statuses, and total counts every result.
C5_CountsMatchResults ==
    json_file # None =>
        LET doc == json_file[1]
            n(st) == Cardinality({ i \in 1..Len(doc.results) : doc.results[i].status = st })
        IN  /\ doc.results = results
            /\ doc.has_regression <=> (n("REGRESSION") > 0)
            /\ doc.regressions = n("REGRESSION")
            /\ doc.improvements = n("IMPROVEMENT")
            /\ doc.total = n("REGRESSION") + n("IMPROVEMENT") + n("OK") + n("NEW") + n("REMOVED")
            /\ doc.total = Len(doc.results)
            /\ md_file # None =>
                  /\ md_file[1].summary = <<doc.total, doc.regressions, doc.improvements>>
                  /\ (md_file[1].status = "FAIL") <=> (n("REGRESSION") > 0)

C5_Witness ==
    /\ pc = "done"
    /\ json_file[1].has_regression
    /\ json_file[1].regressions = 1
    /\ json_file[1].total = 2
    /\ Bucket("NEW") \cup Bucket("REMOVED") # {}

-----------------------------------------------------------------------------
(* C6 *)

\* the segments of an identity
segments(key) == split(key, os_sep)

\* no character of the identity sorts below the path separator
NoLowChars(key) == \A i \in 1..Len(key) : <<key[i]>> = os_sep \/ key[i] > os_sep[1]

\* C6, as stated: the results are ordered lexicographically over segments.
C6_OrderedBySegments ==
    \A i, j \in 1..Len(results) :
        i < j => ListLess(segments(results[i].benchmark), segments(results[j].benchmark))

\* C6, amended: the results, and the regressions and improvements tables,
\* are ordered by the identity as one "/"-joined string, code point by code
\* point; that is the order over segments for identities none of whose
\* characters sorts below the separator.
C6_OrderedByJoinedString ==
    /\ \A i, j \in 1..Len(results) :
          i < j =>
             /\ StrLess(results[i].benchmark, results[j].benchmark)
             /\ (NoLowChars(results[i].benchmark) /\ NoLowChars(results[j].benchmark)) =>
                   ListLess(segments(results[i].benchmark), segments(results[j].benchmark))
    /\ md_file # None =>
          /\ \A i, j \in 1..Len(md_file[1].regressions_table) :
                i < j => StrLess(md_file[1].regressions_table[i].benchmark,
                                 md_file[1].regressions_table[j].benchmark)
          /\ \A i, j \in 1..Len(md_file[1].improvements_table) :
                i < j => StrLess(md_file[1].improvements_table[i].benchmark,
                                 md_file[1].improvements_table[j].benchmark)

C6_Witness ==
    /\ pc = "done"
    /\ Len(results) >= 2
    /\ results[1].benchmark = join(os_sep, <<seg_a_b, seg_gitr_p>>)
    /\ results[2].benchmark = join(os_sep, <<seg_a, seg_gitr>>)

-----------------------------------------------------------------------------
(* C7 *)

\* C7: when a filter-passing identity is in both snapshots with a base timing
\* of zero, the run never reaches the reports: no artifact is written, no
\* result carries a percentage for a zero base, and the run can only stop
\* with a nonzero exit status; every classification precedes the first write.
C7_ZeroBaseFailsBeforeWrites ==
    /\ (\E k \in FilteredKeys : InBoth(k) /\ base_results[k] = 0) =>
          /\ json_file = None
          /\ md_file = None
          /\ pc \in {"check", "loop", "exited"}
          /\ pc = "exited" => (exit_code # None /\ exit_code # Some(0))
    /\ \A i \in 1..Len(results) : Compared(results[i]) => results[i].base_ns # Some(0)
    /\ (json_file # None \/ md_file # None) => Classified

C7_Witness ==
    /\ pc = "exited"
    /\ \E k \in FilteredKeys : InBoth(k) /\ base_results[k] = 0
    /\ DOMAIN base_results # {}
    /\ DOMAIN pr_results # {}
    /\ exit_code = Some(1)
    /\ json_file = None

-----------------------------------------------------------------------------
(* C8 *)

\* C8: every rendered percentage change has a "+" iff its value is positive.
C8_SignMatchesValue ==
    /\ md_file # None =>
          \A c \in RenderedChanges(md_file[1], [regressed |-> << >>]) :
              c.pct # None => ((c.sign = "+") <=> (c.pct[1] > 0))
    /\ \A n \in 1..Len(stdout) :
          \A c \in RenderedChanges(md_file[1], stdout[n]) :
              c.pct # None => ((c.sign = "+") <=> (c.pct[1] > 0))

-----------------------------------------------------------------------------
(* C9 *)

\* the baseline name is among the segments of the directory
Names(dir, name) == \E i \in 1..Len(dir) : dir[i] = name

\* the segments before the first occurrence of the baseline name
Before(dir, name) ==
    SubSeq(dir, 1, (CHOOSE i \in 1..Len(dir) :
                       dir[i] = name /\ \A j \in 1..(i-1) : dir[j] # name) - 1)

Recorded(dir, name) == Names(dir, name) /\ Before(dir, name) # << >>

\* res is the snapshot that the walk w of the tree yields for the name
SnapshotOf(res, w, name) ==
    /\ \A k \in DOMAIN res :
          \E i \in 1..Len(w) : Recorded(w[i], name) /\ Before(w[i], name) = segments(k)
    /\ \A i \in 1..Len(w) :
          Recorded(w[i], name) =>
             \E k \in DOMAIN res :
                /\ segments(k) = Before(w[i], name)
                /\ k = join(os_sep, Before(w[i], name))
                /\ (\A j \in (i+1)..Len(w) :
                       ~ (Recorded(w[j], name) /\ Before(w[j], name) = Before(w[i], name)))
                      => res[k] = tree[w[i]]

-----------------------------------------------------------------------------
(* C10 *)

\* C10: under a negative threshold no identity of both snapshots is OK: it is
\* a REGRESSION iff its change is above the threshold and an IMPROVEMENT
\* otherwise.
C10_NegativeThresholdNeverOk ==
    args.threshold < 0 =>
        \A i \in 1..Len(results) :
            LET r == results[i]
            IN  Compared(r) =>
                   /\ r.status # "OK"
                   /\ (r.status = "REGRESSION") <=>
                         PctAbove(r.base_ns[1], r.pr_ns[1], args.threshold)
                   /\ (r.status = "IMPROVEMENT") <=>
                         ~ PctAbove(r.base_ns[1], r.pr_ns[1], args.threshold)

\* a run that reports a regression although no candidate timing exceeds its base
C10_Witness ==
    /\ pc = "done"
    /\ args.threshold < 0
    /\ json_file[1].has_regression
    /\ \A k \in DOMAIN pr_results : InBoth(k) => pr_results[k] <= base_results[k]
    /\ \E i \in 1..Len(results) :
          /\ results[i].status = "REGRESSION"
          /\ results[i].pr_ns[1] < results[i].base_ns[1]
          /\ PctBelow(results[i].base_ns[1], results[i].pr_ns[1], -args.threshold)

=============================================================================
